---- MODULE Spec2Model ----
(***************************************************************************)
(* FreshMac pipeline: resolver.py (Homebrew resolution engine) and         *)
(* enrich.py (vendor enrichment engine).                                   *)
(*                                                                         *)
(* A Python str is modelled as a sequence of one-character strings; a      *)
(* character outside ASCII is written "U+xxxx".  The characters of the     *)
(* model are those of CodeOrder; the str operators are defined on them.    *)
(***************************************************************************)
EXTENDS Integers, Sequences, FiniteSets, TLC

VARIABLES
    \* ---- resolver.py: environment of one run
    formulaeQuery,   \* result of `brew formulae`: [ok, out]
    casksQuery,      \* result of `brew casks`: [ok, out]
    appsRawFile,     \* the --apps-raw path: [exists, readable, lines]
    r_outWritable,   \* can the --output path be opened for writing
    r_outSpace,      \* do the writes of json.dump and the close succeed
    \* ---- resolver.py: main()
    r_pc,            \* position in main()
    brew_available,  \* set of catalog names
    apps,            \* stripped non-empty lines
    r_i,             \* number of apps the for loop has processed
    resolved,        \* list of {app, command}
    unresolved,      \* list of {app, normalized}
    r_outFile,       \* content of the --output path
    r_outOpens,      \* number of times the --output path was opened for writing
    \* ---- enrich.py: environment of one run
    resolvedFile,    \* the --resolved path: [kind, items]
    e_outWritable,
    e_outSpace,
    \* ---- enrich.py: main()
    e_pc,
    e_unresolved,    \* the list `unresolved`, items mutated in place
    e_i,             \* number of items the for loop has processed
    e_outFile,
    e_outOpens,
    \* ---- normalize_name applied on its own
    n_name,
    n_once,
    n_twice,
    n_pc

r_vars == <<formulaeQuery, casksQuery, appsRawFile, r_outWritable, r_outSpace, r_pc,
            brew_available, apps, r_i, resolved, unresolved, r_outFile, r_outOpens>>
e_vars == <<resolvedFile, e_outWritable, e_outSpace, e_pc, e_unresolved, e_i, e_outFile, e_outOpens>>
n_vars == <<n_name, n_once, n_twice, n_pc>>
vars == <<r_vars, e_vars, n_vars>>

(***************************************************************************)
(* Bounds                                                                  *)
(***************************************************************************)
\* lines in the --apps-raw file
MaxLines == 3
\* entries of the "unresolved" list in the --resolved file
MaxItems == 3
\* length of a name handed to normalize_name on its own
MaxNameLen == 3

(***************************************************************************)
(* Python str                                                              *)
(***************************************************************************)
UpperLetters == <<"A", "B", "C", "D", "E", "F", "G", "H", "I", "J", "K", "L", "M",
                  "N", "O", "P", "Q", "R", "S", "T", "U", "V", "W", "X", "Y", "Z">>
LowerLetters == <<"a", "b", "c", "d", "e", "f", "g", "h", "i", "j", "k", "l", "m",
                  "n", "o", "p", "q", "r", "s", "t", "u", "v", "w", "x", "y", "z">>
\* MATHEMATICAL BOLD CAPITAL A: uppercase (Lu), lower() has no mapping for it
CaselessUpper == "U+1D400"
\* LATIN CAPITAL LETTER I WITH DOT ABOVE: lower() gives "i" and COMBINING DOT ABOVE
CapitalDottedI == "U+0130"
CombiningDot == "U+0307"
\* GREEK CAPITAL LETTER SIGMA, SMALL LETTER SIGMA, SMALL LETTER FINAL SIGMA
CapitalSigma == "U+03A3"
SmallSigma == "U+03C3"
FinalSigma == "U+03C2"

\* The characters of the model in code point order.
CodeOrder == <<"\t", "\n", " ", "-">> \o UpperLetters \o <<"_">> \o LowerLetters
             \o <<CapitalDottedI, CombiningDot, CapitalSigma, FinalSigma, SmallSigma,
                  CaselessUpper>>

Range(s) == {s[i] : i \in DOMAIN s}

IsAsciiUpper(c) == c \in Range(UpperLetters)
\* str.isupper() of one character
IsUpper(c) == IsAsciiUpper(c) \/ c \in {CaselessUpper, CapitalDottedI, CapitalSigma}
\* str.isspace() of one character
IsSpace(c) == c \in {" ", "\n", "\t"}
\* the Unicode properties Cased and Case_Ignorable
IsCased(c) ==
    \/ c \in Range(UpperLetters) \cup Range(LowerLetters)
    \/ c \in {CaselessUpper, CapitalDottedI, CapitalSigma, FinalSigma, SmallSigma}
IsCaseIgnorable(c) == c = CombiningDot

Ord(c) == CHOOSE i \in DOMAIN CodeOrder : CodeOrder[i] = c

LowerChar(c) ==
    IF IsAsciiUpper(c)
    THEN LowerLetters[CHOOSE i \in DOMAIN UpperLetters : UpperLetters[i] = c]
    ELSE c

\* The capital sigma at s[i] is in the Final_Sigma context: the nearest character
\* before it that is not case-ignorable is cased, and the nearest one after it
\* that is not case-ignorable is not cased or does not exist.
InFinalSigmaContext(s, i) ==
    LET before == {j \in 1..(i - 1) : ~IsCaseIgnorable(s[j])}
        after == {j \in (i + 1)..Len(s) : ~IsCaseIgnorable(s[j])}
    IN  /\ before # {}
        /\ IsCased(s[CHOOSE j \in before : \A k \in before : k <= j])
        /\ \/ after = {}
           \/ ~IsCased(s[CHOOSE j \in after : \A k \in after : j <= k])

\* the lowercase of the character at s[i]: one or two characters
lower_at(s, i) ==
    CASE s[i] = CapitalDottedI -> <<"i", CombiningDot>>
      [] s[i] = CapitalSigma ->
            IF InFinalSigmaContext(s, i) THEN <<FinalSigma>> ELSE <<SmallSigma>>
      [] OTHER -> <<LowerChar(s[i])>>

RECURSIVE lower_upto(_, _)
lower_upto(s, n) == IF n = 0 THEN <<>> ELSE lower_upto(s, n - 1) \o lower_at(s, n)

\* str.lower()
str_lower(s) == lower_upto(s, Len(s))

\* s.replace(old, new) for one-character old and new
str_replace(s, old, new) == [i \in DOMAIN s |-> IF s[i] = old THEN new ELSE s[i]]

RECURSIVE str_lstrip(_)
str_lstrip(s) ==
    IF s # <<>> /\ IsSpace(Head(s)) THEN str_lstrip(Tail(s)) ELSE s

RECURSIVE str_rstrip(_)
str_rstrip(s) ==
    IF s # <<>> /\ IsSpace(s[Len(s)]) THEN str_rstrip(SubSeq(s, 1, Len(s) - 1)) ELSE s

str_strip(s) == str_rstrip(str_lstrip(s))

\* s.split(sep) for a one-character sep: always at least one piece
RECURSIVE str_split(_, _)
str_split(s, sep) ==
    IF \E i \in DOMAIN s : s[i] = sep
    THEN LET k == CHOOSE i \in DOMAIN s : s[i] = sep /\ \A j \in 1..(i - 1) : s[j] # sep
         IN  <<SubSeq(s, 1, k - 1)>> \o str_split(SubSeq(s, k + 1, Len(s)), sep)
    ELSE <<s>>

\* a < b on str: lexicographic by code point
StrLess(a, b) ==
    \E k \in 1..(Len(b)) :
        /\ \A j \in 1..(k - 1) : j <= Len(a) /\ a[j] = b[j]
        /\ \/ k = Len(a) + 1
           \/ k <= Len(a) /\ Ord(a[k]) < Ord(b[k])

StrLessEq(a, b) == a = b \/ StrLess(a, b)

\* dict.get(key, default)
dict_get(d, key, default) == IF key \in DOMAIN d THEN d[key] ELSE default

(***************************************************************************)
(* resolver.py                                                             *)
(***************************************************************************)
\* lines 15-16: set(output.strip().split('\n'))
brew_names(out) == Range(str_split(str_strip(out), "\n"))

\* get_brew_list with the per-list fallback: a failed query yields an empty list
get_brew_list_per_list(fq, cq) ==
    (IF fq.ok THEN brew_names(fq.out) ELSE {})
    \cup (IF cq.ok THEN brew_names(cq.out) ELSE {})

\* get_brew_list with only the formulae query covered by the fallback
get_brew_list_casks_unguarded(fq, cq) ==
    IF fq.ok
    THEN brew_names(fq.out) \cup (IF cq.ok THEN brew_names(cq.out) ELSE {})
    ELSE {}

\* One try block around both queries; a bare except returns set().
get_brew_list(fq, cq) ==
    IF fq.ok /\ cq.ok
    THEN brew_names(fq.out) \cup brew_names(cq.out)
    ELSE {}

\* normalize_name without the lower() call
normalize_name_no_lower(name) == str_replace(str_replace(name, " ", "-"), "_", "-")

normalize_name(name) == str_replace(str_replace(str_lower(name), " ", "-"), "_", "-")


\* line 44: `norm in brew_available` with a prefix match instead of equality
in_catalog_prefix(norm, catalog) ==
    \E c \in catalog : Len(norm) <= Len(c) /\ SubSeq(c, 1, Len(norm)) = norm

\* line 44: `norm in brew_available`
in_catalog(norm, catalog) == norm \in catalog

\* line 40 keeping the blank lines
read_apps_keep_blank(lines) == [i \in DOMAIN lines |-> str_strip(lines[i])]

\* line 40: apps = [line.strip() for line in f if line.strip()]
read_apps(lines) ==
    LET kept == SelectSeq(lines, LAMBDA line : str_strip(line) # <<>>)
    IN  [i \in DOMAIN kept |-> str_strip(kept[i])]

\* lines 45 and 47 with the new record put at the front of its list
bucket_prepend(bucket, rec) == <<rec>> \o bucket

\* lines 45 and 47: list.append
bucket_append(bucket, rec) == Append(bucket, rec)

\* The --output path: not opened by this run; holding the whole document; or
\* opened (created or truncated by mode 'w') and left with an incomplete document
\* because a write of json.dump or the close raised.
Untouched == [state |-> "untouched"]
Written(json) == [state |-> "written", json |-> json]
Truncated == [state |-> "truncated"]

\* <<open succeeds, write and close succeed>> for an --output path: it cannot be
\* opened, or it opens and the write fails (full device, size limit), or all is well
OutputPaths == {<<FALSE, FALSE>>, <<TRUE, FALSE>>, <<TRUE, TRUE>>}

\* ---- inputs of a resolver run
VisualStudioCode == <<"V", "i", "s", "u", "a", "l", " ", "S", "t", "u", "d", "i", "o",
                      " ", "C", "o", "d", "e">>
GoogleChrome == <<"G", "o", "o", "g", "l", "e", " ", "C", "h", "r", "o", "m", "e">>
PaddedVLC == <<" ", " ", "V", "L", "C", " ">>
BlankLine == <<" ", " ">>
MyApp == <<"m", "y", "_", "a", "p", "p">>
Visual == <<"V", "i", "s", "u", "a", "l">>

AppLines == {VisualStudioCode, GoogleChrome, PaddedVLC, BlankLine, MyApp, Visual}

\* "vlc\nmy-app\n\n"
FormulaeText == <<"v", "l", "c", "\n", "m", "y", "-", "a", "p", "p", "\n", "\n">>
\* "visual-studio-code\nvlc\n"
CasksText == <<"v", "i", "s", "u", "a", "l", "-", "s", "t", "u", "d", "i", "o", "-",
               "c", "o", "d", "e", "\n", "v", "l", "c", "\n">>

QueryFailed == [ok |-> FALSE, out |-> <<>>]
FormulaeResults == {QueryFailed, [ok |-> TRUE, out |-> FormulaeText],
                    [ok |-> TRUE, out |-> <<>>]}
CasksResults == {QueryFailed, [ok |-> TRUE, out |-> CasksText],
                 [ok |-> TRUE, out |-> <<>>]}

SeqsUpTo(S, n) == UNION {[1..k -> S] : k \in 0..n}

\* exists: Path.exists() on line 38; readable: open() and the iteration of line
\* 39-40 succeed (not so for a directory, for bytes that do not decode, without
\* permission, or when the file is removed after line 38)
AppsRawFiles ==
    {[exists |-> FALSE, readable |-> FALSE, lines |-> <<>>],
     [exists |-> TRUE, readable |-> FALSE, lines |-> <<>>]}
    \cup {[exists |-> TRUE, readable |-> TRUE, lines |-> l] :
            l \in SeqsUpTo(AppLines, MaxLines)}

R_Init ==
    /\ formulaeQuery \in FormulaeResults
    /\ casksQuery \in CasksResults
    /\ appsRawFile \in AppsRawFiles
    /\ \E p \in OutputPaths : r_outWritable = p[1] /\ r_outSpace = p[2]
    /\ r_pc = "get_brew_list"
    /\ brew_available = {}
    /\ apps = <<>>
    /\ r_i = 0
    /\ resolved = <<>>
    /\ unresolved = <<>>
    /\ r_outFile = Untouched
    /\ r_outOpens = 0

R_Idle ==
    /\ formulaeQuery = QueryFailed
    /\ casksQuery = QueryFailed
    /\ appsRawFile = [exists |-> FALSE, readable |-> FALSE, lines |-> <<>>]
    /\ r_outWritable = FALSE
    /\ r_outSpace = FALSE
    /\ r_pc = "idle"
    /\ brew_available = {}
    /\ apps = <<>>
    /\ r_i = 0
    /\ resolved = <<>>
    /\ unresolved = <<>>
    /\ r_outFile = Untouched
    /\ r_outOpens = 0

\* line 32
R_GetBrewList ==
    /\ r_pc = "get_brew_list"
    /\ brew_available' = get_brew_list(formulaeQuery, casksQuery)
    /\ r_pc' = "read"
    /\ UNCHANGED <<formulaeQuery, casksQuery, appsRawFile, r_outWritable, r_outSpace, apps, r_i,
                   resolved, unresolved, r_outFile, r_outOpens>>

\* lines 38-40; an exception of open() or of the iteration ends main()
R_ReadApps ==
    /\ r_pc = "read"
    /\ CASE ~appsRawFile.exists -> apps' = apps /\ r_pc' = "write"
         [] appsRawFile.exists /\ ~appsRawFile.readable -> apps' = apps /\ r_pc' = "failed"
         [] appsRawFile.exists /\ appsRawFile.readable ->
              apps' = read_apps(appsRawFile.lines) /\ r_pc' = "loop"
    /\ UNCHANGED <<formulaeQuery, casksQuery, appsRawFile, r_outWritable, r_outSpace, brew_available,
                   r_i, resolved, unresolved, r_outFile, r_outOpens>>

\* lines 42-47, one iteration
R_Classify ==
    /\ r_pc = "loop"
    /\ r_i < Len(apps)
    /\ LET app == apps[r_i + 1]
           norm == normalize_name(app)
       IN  IF in_catalog(norm, brew_available)
           THEN /\ resolved' = bucket_append(resolved, [app |-> app, command |-> norm])
                /\ unresolved' = unresolved
           ELSE /\ unresolved' = bucket_append(unresolved, [app |-> app, normalized |-> norm])
                /\ resolved' = resolved
    /\ r_i' = r_i + 1
    /\ UNCHANGED <<formulaeQuery, casksQuery, appsRawFile, r_outWritable, r_outSpace, r_pc,
                   brew_available, apps, r_outFile, r_outOpens>>

\* line 42, the for loop is exhausted
R_LoopExit ==
    /\ r_pc = "loop"
    /\ r_i = Len(apps)
    /\ r_pc' = "write"
    /\ UNCHANGED <<formulaeQuery, casksQuery, appsRawFile, r_outWritable, r_outSpace, brew_available,
                   apps, r_i, resolved, unresolved, r_outFile, r_outOpens>>

\* lines 49-55; open() raises on an unwritable path and the file is not touched;
\* an OSError of json.dump or of the close ends main() after the open
R_WriteOutput ==
    /\ r_pc = "write"
    /\ CASE ~r_outWritable ->
              /\ r_outOpens' = r_outOpens
              /\ r_outFile' = r_outFile
              /\ r_pc' = "failed"
         [] r_outWritable /\ ~r_outSpace ->
              /\ r_outOpens' = r_outOpens + 1
              /\ r_outFile' = Truncated
              /\ r_pc' = "failed"
         [] r_outWritable /\ r_outSpace ->
              /\ r_outOpens' = r_outOpens + 1
              /\ r_outFile' = Written([brew_installable |-> resolved,
                                       unresolved |-> unresolved])
              /\ r_pc' = "done"
    /\ UNCHANGED <<formulaeQuery, casksQuery, appsRawFile, r_outWritable, r_outSpace, brew_available,
                   apps, r_i, resolved, unresolved>>


(***************************************************************************)
(* enrich.py                                                               *)
(***************************************************************************)
\* VENDOR_MAP as (key, value) pairs, lines 12-23
VENDOR_ITEMS == {
    <<<<"g", "i", "t", "h", "u", "b", "-", "d", "e", "s", "k", "t", "o", "p">>,
      "https://desktop.github.com">>,
    <<<<"v", "i", "s", "u", "a", "l", "-", "s", "t", "u", "d", "i", "o", "-",
        "c", "o", "d", "e">>, "https://code.visualstudio.com">>,
    <<<<"c", "h", "r", "o", "m", "e">>, "https://www.google.com/chrome">>,
    <<<<"f", "i", "r", "e", "f", "o", "x">>, "https://www.mozilla.org/firefox">>,
    <<<<"v", "l", "c">>, "https://www.videolan.org">>,
    <<<<"d", "i", "s", "c", "o", "r", "d">>, "https://discord.com/download">>,
    <<<<"t", "e", "l", "e", "g", "r", "a", "m">>, "https://telegram.org">>,
    <<<<"w", "h", "a", "t", "s", "a", "p", "p">>, "https://www.whatsapp.com/download">>,
    <<<<"s", "l", "a", "c", "k">>, "https://slack.com/downloads">>,
    <<<<"z", "o", "o", "m">>, "https://zoom.us/download">> }

VendorKeys == {p[1] : p \in VENDOR_ITEMS}
VENDOR_MAP(k) == (CHOOSE p \in VENDOR_ITEMS : p[1] = k)[2]

\* line 41: norm = item.get('normalized', '').lower()
lookup_key(item) == str_lower(dict_get(item, "normalized", <<>>))

\* line 42: `norm in VENDOR_MAP`
vendor_hit(norm) == norm \in VendorKeys

\* lines 42-47 with the key looked up as a suffix of the name
enrich_item_suffix(item) ==
    LET norm == lookup_key(item)
        hits == {k \in VendorKeys :
                    Len(k) <= Len(norm)
                    /\ SubSeq(norm, Len(norm) - Len(k) + 1, Len(norm)) = k}
        url == IF hits # {} THEN VENDOR_MAP(CHOOSE k \in hits : TRUE) ELSE "Not found"
        conf == IF hits # {} THEN "high" ELSE "low"
    IN  [k \in DOMAIN item \cup {"official_download_url", "confidence"} |->
            CASE k = "official_download_url" -> url
              [] k = "confidence" -> conf
              [] OTHER -> item[k]]

\* lines 42-47: the two fields set on the item, the other fields kept
enrich_item(item) ==
    LET norm == lookup_key(item)
        url == IF vendor_hit(norm) THEN VENDOR_MAP(norm) ELSE "Not found"
        conf == IF vendor_hit(norm) THEN "high" ELSE "low"
    IN  [k \in DOMAIN item \cup {"official_download_url", "confidence"} |->
            CASE k = "official_download_url" -> url
              [] k = "confidence" -> conf
              [] OTHER -> item[k]]

\* line 49: key=lambda x: x.get('app', '')
sort_key(x) == dict_get(x, "app", <<>>)

\* insertion after the last element whose key is <= the key of x
RECURSIVE insert_sorted(_, _)
insert_sorted(s, x) ==
    IF s = <<>> THEN <<x>>
    ELSE IF StrLessEq(sort_key(s[Len(s)]), sort_key(x))
         THEN Append(s, x)
         ELSE Append(insert_sorted(SubSeq(s, 1, Len(s) - 1), x), s[Len(s)])

RECURSIVE stable_sort(_)
stable_sort(s) ==
    IF s = <<>> THEN <<>>
    ELSE insert_sorted(stable_sort(SubSeq(s, 1, Len(s) - 1)), s[Len(s)])

\* line 49 without the sort
sorted_identity(s) == s

\* line 49: sorted(unresolved, key=...), a stable sort
sorted_by_app(s) == stable_sort(s)

\* line 37: data.get('unresolved', [])
data_unresolved(data) == dict_get(data, "unresolved", <<>>)

\* lines 33-37 with a missing --resolved path raising instead of being skipped
load_result_strict(file) ==
    CASE file.kind \in {"absent", "unreadable", "malformed", "array"} ->
              [pc |-> "failed", unresolved |-> <<>>]
      [] file.kind = "object" ->
              [pc |-> "enrich", unresolved |-> data_unresolved(file.data)]

\* lines 33-37: Path.exists() guards the block; open() raises on a path that cannot
\* be read, json.load raises on malformed text, data.get raises when the top-level
\* value is not an object
load_result(file) ==
    CASE file.kind = "absent" -> [pc |-> "write", unresolved |-> <<>>]
      [] file.kind \in {"unreadable", "malformed", "array"} ->
              [pc |-> "failed", unresolved |-> <<>>]
      [] file.kind = "object" ->
              [pc |-> "enrich", unresolved |-> data_unresolved(file.data)]

\* ---- inputs of an enricher run
Zoom == <<"Z", "o", "o", "m">>
Airtable == <<"A", "i", "r", "t", "a", "b", "l", "e">>
airtable == <<"a", "i", "r", "t", "a", "b", "l", "e">>
VLC == <<"V", "L", "C">>

ResolvedItems == {
    [app |-> Zoom, normalized |-> <<"z", "o", "o", "m">>],
    [app |-> Airtable, normalized |-> airtable],
    [app |-> airtable, normalized |-> airtable],
    [app |-> GoogleChrome,
     normalized |-> <<"g", "o", "o", "g", "l", "e", "-", "c", "h", "r", "o", "m", "e">>],
    [app |-> VLC, normalized |-> VLC],
    [app |-> Zoom, normalized |-> <<"c", "h", "r", "o", "m", "e">>],
    [normalized |-> <<"d", "i", "s", "c", "o", "r", "d">>],
    [app |-> <<>>] }

ResolvedFiles ==
    {[kind |-> "absent"], [kind |-> "unreadable"], [kind |-> "malformed"],
     [kind |-> "array"],
     [kind |-> "object", data |-> [brew_installable |-> <<>>]]}
    \cup {[kind |-> "object", data |-> [brew_installable |-> <<>>, unresolved |-> l]] :
            l \in SeqsUpTo(ResolvedItems, MaxItems)}

E_Init ==
    /\ resolvedFile \in ResolvedFiles
    /\ \E p \in OutputPaths : e_outWritable = p[1] /\ e_outSpace = p[2]
    /\ e_pc = "load"
    /\ e_unresolved = <<>>
    /\ e_i = 0
    /\ e_outFile = Untouched
    /\ e_outOpens = 0

E_Idle ==
    /\ resolvedFile = [kind |-> "absent"]
    /\ e_outWritable = FALSE
    /\ e_outSpace = FALSE
    /\ e_pc = "idle"
    /\ e_unresolved = <<>>
    /\ e_i = 0
    /\ e_outFile = Untouched
    /\ e_outOpens = 0

\* lines 31-37
E_Load ==
    /\ e_pc = "load"
    /\ e_unresolved' = load_result(resolvedFile).unresolved
    /\ e_pc' = load_result(resolvedFile).pc
    /\ UNCHANGED <<resolvedFile, e_outWritable, e_outSpace, e_i, e_outFile, e_outOpens>>

\* lines 40-47, one iteration
E_EnrichItem ==
    /\ e_pc = "enrich"
    /\ e_i < Len(e_unresolved)
    /\ e_unresolved' = [e_unresolved EXCEPT ![e_i + 1] = enrich_item(@)]
    /\ e_i' = e_i + 1
    /\ UNCHANGED <<resolvedFile, e_outWritable, e_outSpace, e_pc, e_outFile, e_outOpens>>

\* line 40, the for loop is exhausted
E_LoopExit ==
    /\ e_pc = "enrich"
    /\ e_i = Len(e_unresolved)
    /\ e_pc' = "write"
    /\ UNCHANGED <<resolvedFile, e_outWritable, e_outSpace, e_unresolved, e_i, e_outFile, e_outOpens>>

\* lines 49-52
E_WriteOutput ==
    /\ e_pc = "write"
    /\ CASE ~e_outWritable ->
              /\ e_outOpens' = e_outOpens
              /\ e_outFile' = e_outFile
              /\ e_pc' = "failed"
         [] e_outWritable /\ ~e_outSpace ->
              /\ e_outOpens' = e_outOpens + 1
              /\ e_outFile' = Truncated
              /\ e_pc' = "failed"
         [] e_outWritable /\ e_outSpace ->
              /\ e_outOpens' = e_outOpens + 1
              /\ e_outFile' = Written([unresolved |-> sorted_by_app(e_unresolved)])
              /\ e_pc' = "done"
    /\ UNCHANGED <<resolvedFile, e_outWritable, e_outSpace, e_unresolved, e_i>>

(***************************************************************************)
(* normalize_name on its own                                               *)
(***************************************************************************)
NameAlphabet == {"A", "b", " ", "_", "-", CaselessUpper, CapitalDottedI, CapitalSigma}
Names == SeqsUpTo(NameAlphabet, MaxNameLen) \ {<<>>}

N_Init ==
    /\ n_name \in Names
    /\ n_once = <<>>
    /\ n_twice = <<>>
    /\ n_pc = "raw"

N_Idle ==
    /\ n_name = <<>>
    /\ n_once = <<>>
    /\ n_twice = <<>>
    /\ n_pc = "idle"

N_Normalize ==
    /\ n_pc = "raw"
    /\ n_once' = normalize_name(n_name)
    /\ n_pc' = "once"
    /\ UNCHANGED <<n_name, n_twice>>

N_NormalizeAgain ==
    /\ n_pc = "once"
    /\ n_twice' = normalize_name(n_once)
    /\ n_pc' = "twice"
    /\ UNCHANGED <<n_name, n_once>>

(***************************************************************************)
(* Specifications                                                          *)
(***************************************************************************)
InitResolver == R_Init /\ E_Idle /\ N_Idle
NextResolver ==
    \/ R_GetBrewList /\ UNCHANGED <<e_vars, n_vars>>
    \/ R_ReadApps /\ UNCHANGED <<e_vars, n_vars>>
    \/ R_Classify /\ UNCHANGED <<e_vars, n_vars>>
    \/ R_LoopExit /\ UNCHANGED <<e_vars, n_vars>>
    \/ R_WriteOutput /\ UNCHANGED <<e_vars, n_vars>>
SpecResolver == InitResolver /\ [][NextResolver]_vars

InitEnricher == R_Idle /\ E_Init /\ N_Idle
NextEnricher ==
    \/ E_Load /\ UNCHANGED <<r_vars, n_vars>>
    \/ E_EnrichItem /\ UNCHANGED <<r_vars, n_vars>>
    \/ E_LoopExit /\ UNCHANGED <<r_vars, n_vars>>
    \/ E_WriteOutput /\ UNCHANGED <<r_vars, n_vars>>
SpecEnricher == InitEnricher /\ [][NextEnricher]_vars

InitNormalize == R_Idle /\ E_Idle /\ N_Init
NextNormalize ==
    \/ N_Normalize /\ UNCHANGED <<r_vars, e_vars>>
    \/ N_NormalizeAgain /\ UNCHANGED <<r_vars, e_vars>>
SpecNormalize == InitNormalize /\ [][NextNormalize]_vars

\* The pipeline: the resolver runs to completion, then the enricher is started on
\* a --resolved path that holds the resolver's output or some other file (an
\* output the resolver left truncated is malformed JSON).
ResolvedPathContents(out) ==
    {[kind |-> "absent"], [kind |-> "unreadable"], [kind |-> "malformed"],
     [kind |-> "array"],
     [kind |-> "object", data |-> [brew_installable |-> <<>>]]}
    \cup (IF out.state = "written" THEN {[kind |-> "object", data |-> out.json]} ELSE {})

P_StartEnricher ==
    /\ r_pc \in {"done", "failed"}
    /\ e_pc = "idle"
    /\ resolvedFile' \in ResolvedPathContents(r_outFile)
    /\ \E p \in OutputPaths : e_outWritable' = p[1] /\ e_outSpace' = p[2]
    /\ e_pc' = "load"
    /\ UNCHANGED <<r_vars, n_vars, e_unresolved, e_i, e_outFile, e_outOpens>>

Init == R_Init /\ E_Idle /\ N_Idle
Next ==
    \/ R_GetBrewList /\ UNCHANGED <<e_vars, n_vars>>
    \/ R_ReadApps /\ UNCHANGED <<e_vars, n_vars>>
    \/ R_Classify /\ UNCHANGED <<e_vars, n_vars>>
    \/ R_LoopExit /\ UNCHANGED <<e_vars, n_vars>>
    \/ R_WriteOutput /\ UNCHANGED <<e_vars, n_vars>>
    \/ P_StartEnricher
    \/ E_Load /\ UNCHANGED <<r_vars, n_vars>>
    \/ E_EnrichItem /\ UNCHANGED <<r_vars, n_vars>>
    \/ E_LoopExit /\ UNCHANGED <<r_vars, n_vars>>
    \/ E_WriteOutput /\ UNCHANGED <<r_vars, n_vars>>
Spec == Init /\ [][Next]_vars

(***************************************************************************)
(* Properties                                                              *)
(***************************************************************************)
VisualStudioCodeName == <<"v", "i", "s", "u", "a", "l", "-", "s", "t", "u", "d", "i", "o",
                          "-", "c", "o", "d", "e">>
GoogleChromeName == <<"g", "o", "o", "g", "l", "e", "-", "c", "h", "r", "o", "m", "e">>
VisualName == <<"v", "i", "s", "u", "a", "l">>
MyAppName == <<"m", "y", "-", "a", "p", "p">>
DiscordName == <<"d", "i", "s", "c", "o", "r", "d">>

NonBlank(line) == \E i \in DOMAIN line : ~IsSpace(line[i])
NonBlankCount(lines) == Cardinality({k \in DOMAIN lines : NonBlank(lines[k])})
CountApp(bucket, a) == Cardinality({k \in DOMAIN bucket : bucket[k].app = a})
AppsOf(bucket) == [k \in DOMAIN bucket |-> bucket[k].app]
ResolverWritten == r_outFile.state = "written"
EnricherWritten == e_outFile.state = "written"

\* C1: every processed app is in brew_installable as {app, command: normalize(app)}
\* exactly when normalize(app) is a member of the catalog, and otherwise in
\* unresolved as {app, normalized: normalize(app)}; no record has another origin,
\* and the Visual Studio Code / Google Chrome example gives the stated output.
C1_Classification ==
    /\ \A k \in 1..r_i :
         LET app == apps[k]
             norm == normalize_name(app)
         IN  IF norm \in brew_available
             THEN /\ [app |-> app, command |-> norm] \in Range(resolved)
                  /\ \A u \in Range(unresolved) : u.app # app
             ELSE /\ [app |-> app, normalized |-> norm] \in Range(unresolved)
                  /\ \A b \in Range(resolved) : b.app # app
    /\ \A b \in Range(resolved) :
         /\ \E k \in 1..r_i : apps[k] = b.app
         /\ b.command \in brew_available
    /\ \A u \in Range(unresolved) :
         /\ \E k \in 1..r_i : apps[k] = u.app
         /\ u.normalized \notin brew_available
    /\ ( /\ r_pc = "done"
         /\ appsRawFile.lines = <<VisualStudioCode, GoogleChrome>>
         /\ VisualStudioCodeName \in brew_available
         /\ GoogleChromeName \notin brew_available )
       => r_outFile.json =
            [brew_installable |-> <<[app |-> VisualStudioCode,
                                     command |-> VisualStudioCodeName]>>,
             unresolved |-> <<[app |-> GoogleChrome, normalized |-> GoogleChromeName]>>]

C1_Witness ==
    /\ r_pc = "done"
    /\ ResolverWritten
    /\ [app |-> VisualStudioCode, command |-> VisualStudioCodeName]
         \in Range(r_outFile.json.brew_installable)
    /\ [app |-> Visual, normalized |-> VisualName] \in Range(r_outFile.json.unresolved)

\* C2: at every point of the loop no app is in both buckets, the two buckets
\* together hold one record per processed app (duplicates included), and at the end
\* their total is the number of non-blank input lines.
C2_Partition ==
    /\ Len(resolved) + Len(unresolved) = r_i
    /\ \A b \in Range(resolved) : \A u \in Range(unresolved) : b.app # u.app
    /\ \A a \in Range(apps) :
         Cardinality({k \in 1..r_i : apps[k] = a})
           = CountApp(resolved, a) + CountApp(unresolved, a)
    /\ (r_pc \in {"write", "done"} /\ appsRawFile.exists)
         => r_i = NonBlankCount(appsRawFile.lines)
    /\ r_pc = "done"
         => Len(r_outFile.json.brew_installable) + Len(r_outFile.json.unresolved) = r_i

C2_Witness ==
    /\ r_pc = "done"
    /\ appsRawFile.lines = <<MyApp, BlankLine, MyApp>>
    /\ r_outFile.json.brew_installable
         = <<[app |-> MyApp, command |-> MyAppName], [app |-> MyApp, command |-> MyAppName]>>

CatalogQueryFailed == ~formulaeQuery.ok \/ ~casksQuery.ok

\* C3: when the formulae query or the casks query fails, the catalog is empty and
\* the run goes on to read the apps: it ends without output only when the
\* --apps-raw path cannot be read or the --output path cannot be written (it does
\* not open, or the write fails), and the
\* output written has an empty brew_installable and one unresolved record per
\* input app.
C3_FailOpen ==
    (CatalogQueryFailed /\ r_pc # "idle") =>
        /\ r_pc # "get_brew_list" => brew_available = {}
        /\ r_pc = "failed" =>
             \/ appsRawFile.exists /\ ~appsRawFile.readable
             \/ ~r_outWritable
             \/ ~r_outSpace
        /\ resolved = <<>>
        /\ r_pc = "done" =>
             /\ appsRawFile.exists => Len(apps) = NonBlankCount(appsRawFile.lines)
             /\ r_outFile =
                  Written([brew_installable |-> <<>>,
                           unresolved |-> [k \in DOMAIN apps |->
                              [app |-> apps[k], normalized |-> normalize_name(apps[k])]]])

C3_Witness ==
    /\ r_pc = "done"
    /\ ~formulaeQuery.ok
    /\ casksQuery = [ok |-> TRUE, out |-> CasksText]
    /\ Len(r_outFile.json.unresolved) >= 2
    /\ [app |-> VisualStudioCode, normalized |-> VisualStudioCodeName]
         \in Range(r_outFile.json.unresolved)

ExactlyOneQueryFailed == formulaeQuery.ok # casksQuery.ok
SuccessfulList ==
    IF formulaeQuery.ok THEN brew_names(formulaeQuery.out) ELSE brew_names(casksQuery.out)

\* C4 as stated: when exactly one query fails, the catalog is the successful
\* query's result set, so an app whose normalized name is in the successful list
\* finds it in the catalog and is placed in brew_installable.
C4_PerListFallback ==
    (ExactlyOneQueryFailed /\ r_pc \notin {"idle", "get_brew_list"}) =>
        \A k \in 1..r_i :
            normalize_name(apps[k]) \in SuccessfulList
              => /\ normalize_name(apps[k]) \in brew_available
                 /\ \E b \in Range(resolved) : b.app = apps[k]

\* C4 amended: when exactly one query fails, the result of the successful query is
\* discarded with it: the catalog is empty and every app, also one whose normalized
\* name is in the successful list, is in unresolved.
C4_WholeCatalogFallback ==
    (ExactlyOneQueryFailed /\ r_pc \notin {"idle", "get_brew_list"}) =>
        /\ brew_available = {}
        /\ \A k \in 1..r_i :
             /\ \E u \in Range(unresolved) : u.app = apps[k]
             /\ \A b \in Range(resolved) : b.app # apps[k]

C4_Witness ==
    /\ r_pc = "done"
    /\ formulaeQuery = [ok |-> TRUE, out |-> FormulaeText]
    /\ ~casksQuery.ok
    /\ MyAppName \in SuccessfulList
    /\ [app |-> MyApp, normalized |-> MyAppName] \in Range(r_outFile.json.unresolved)

\* C5 as stated: normalize is idempotent and its result has no space, no underscore
\* and no uppercase letter.
C5_NoUppercase ==
    /\ n_pc \in {"once", "twice"} =>
         \A i \in DOMAIN n_once : n_once[i] # " " /\ n_once[i] # "_" /\ ~IsUpper(n_once[i])
    /\ n_pc = "twice" => n_twice = n_once

\* C5 amended: normalize is idempotent and its result has no space, no underscore
\* and no ASCII uppercase letter; an uppercase letter for which lower() has no
\* mapping is kept.
C5_NoAsciiUppercase ==
    /\ n_pc \in {"once", "twice"} =>
         /\ \A i \in DOMAIN n_once :
              n_once[i] # " " /\ n_once[i] # "_" /\ ~IsAsciiUpper(n_once[i])
         /\ CaselessUpper \in Range(n_name) => CaselessUpper \in Range(n_once)
    /\ n_pc = "twice" => n_twice = n_once

C5_Witness ==
    /\ n_pc = "twice"
    /\ n_name = <<"A", " ", "_">>
    /\ n_twice = <<"a", "-", "-">>

InputItems ==
    IF resolvedFile.kind = "object" /\ "unresolved" \in DOMAIN resolvedFile.data
    THEN resolvedFile.data.unresolved
    ELSE <<>>
NormalizedOrEmpty(x) == IF "normalized" \in DOMAIN x THEN x.normalized ELSE <<>>
AppOrEmpty(x) == IF "app" \in DOMAIN x THEN x.app ELSE <<>>
HasBothFields(x) == {"official_download_url", "confidence"} \subseteq DOMAIN x

\* C6: an enriched item has confidence high and the table's URL exactly when its
\* lowercased normalized field is a key of the vendor table, and low / "Not found"
\* otherwise; high never comes with "Not found"; every output record has both fields.
C6_HitMiss ==
    /\ \A k \in 1..e_i :
         LET key == str_lower(NormalizedOrEmpty(InputItems[k]))
             out == e_unresolved[k]
         IN  /\ HasBothFields(out)
             /\ IF \E p \in VENDOR_ITEMS : p[1] = key
                THEN /\ out.confidence = "high"
                     /\ <<key, out.official_download_url>> \in VENDOR_ITEMS
                ELSE /\ out.confidence = "low"
                     /\ out.official_download_url = "Not found"
             /\ ~(out.confidence = "high" /\ out.official_download_url = "Not found")
             /\ NormalizedOrEmpty(InputItems[k]) = DiscordName
                  => /\ out.official_download_url = "https://discord.com/download"
                     /\ out.confidence = "high"
             /\ NormalizedOrEmpty(InputItems[k]) = GoogleChromeName
                  => /\ out.official_download_url = "Not found"
                     /\ out.confidence = "low"
    /\ EnricherWritten =>
         \A o \in Range(e_outFile.json.unresolved) :
             /\ HasBothFields(o)
             /\ o.confidence \in {"high", "low"}
             /\ o.confidence = "high" <=> o.official_download_url # "Not found"

C6_Witness ==
    /\ e_pc = "done"
    /\ EnricherWritten
    /\ [app |-> VLC, normalized |-> VLC, official_download_url |-> "https://www.videolan.org",
        confidence |-> "high"] \in Range(e_outFile.json.unresolved)
    /\ [app |-> GoogleChrome, normalized |-> GoogleChromeName,
        official_download_url |-> "Not found", confidence |-> "low"]
         \in Range(e_outFile.json.unresolved)

WithoutAddedFields(x) ==
    [k \in DOMAIN x \ {"official_download_url", "confidence"} |-> x[k]]
InputOrder(out) == [k \in DOMAIN out |-> WithoutAddedFields(out[k])]

\* C7: the output list is the input list in stable ascending order of app: same
\* length, records unchanged but for the two added fields, adjacent apps in order,
\* records with a missing or empty app first, records with equal app in input order.
C7_StableSort ==
    EnricherWritten =>
        LET out == e_outFile.json.unresolved
            inp == InputItems
        IN  /\ Len(out) = Len(inp)
            /\ \A i \in 1..(Len(out) - 1) :
                 StrLessEq(AppOrEmpty(out[i]), AppOrEmpty(out[i + 1]))
            /\ \A i \in DOMAIN out : \A j \in DOMAIN out :
                 (i < j /\ AppOrEmpty(out[j]) = <<>>) => AppOrEmpty(out[i]) = <<>>
            /\ \A o \in Range(out) : HasBothFields(o)
            /\ \A x \in Range(inp) \cup Range(InputOrder(out)) :
                 SelectSeq(InputOrder(out), LAMBDA y : AppOrEmpty(y) = AppOrEmpty(x))
                   = SelectSeq(inp, LAMBDA y : AppOrEmpty(y) = AppOrEmpty(x))

C7_Witness ==
    /\ e_pc = "done"
    /\ InputItems = <<[app |-> Zoom, normalized |-> <<"z", "o", "o", "m">>],
                      [app |-> Airtable, normalized |-> airtable],
                      [app |-> Zoom, normalized |-> <<"c", "h", "r", "o", "m", "e">>]>>
    /\ InputOrder(e_outFile.json.unresolved)
         = <<[app |-> Airtable, normalized |-> airtable],
             [app |-> Zoom, normalized |-> <<"z", "o", "o", "m">>],
             [app |-> Zoom, normalized |-> <<"c", "h", "r", "o", "m", "e">>]>>

EnricherNoInput ==
    \/ resolvedFile.kind = "absent"
    \/ resolvedFile.kind = "object" /\ "unresolved" \notin DOMAIN resolvedFile.data

\* C8: a missing --apps-raw path gives the resolver output with two empty buckets
\* whatever the catalog; a missing --resolved path or one without an "unresolved"
\* key gives the enricher output with an empty list; such a run fails only on an
\* output path that cannot be opened or written.
C8_MissingInput ==
    /\ ~appsRawFile.exists =>
         /\ r_pc = "done" =>
              r_outFile = Written([brew_installable |-> <<>>, unresolved |-> <<>>])
         /\ r_pc = "failed" => (~r_outWritable \/ ~r_outSpace)
    /\ (EnricherNoInput /\ e_pc # "idle") =>
         /\ e_pc = "done" => e_outFile = Written([unresolved |-> <<>>])
         /\ e_pc = "failed" => (~e_outWritable \/ ~e_outSpace)

C8_Witness ==
    /\ r_pc = "done"
    /\ ~appsRawFile.exists
    /\ brew_available # {}
    /\ r_outFile = Written([brew_installable |-> <<>>, unresolved |-> <<>>])
    /\ e_pc = "done"
    /\ resolvedFile = [kind |-> "object", data |-> [brew_installable |-> <<>>]]
    /\ e_outFile = Written([unresolved |-> <<>>])

\* C9: each bucket lists its apps in input order: it is the processed part of the
\* input with the apps of the other bucket left out.
C9_InputOrder ==
    LET processed == SubSeq(apps, 1, r_i)
    IN  /\ AppsOf(resolved)
             = SelectSeq(processed, LAMBDA a : \E b \in Range(resolved) : b.app = a)
        /\ AppsOf(unresolved)
             = SelectSeq(processed, LAMBDA a : \E u \in Range(unresolved) : u.app = a)
        /\ r_pc = "done" =>
             /\ AppsOf(r_outFile.json.brew_installable) = AppsOf(resolved)
             /\ AppsOf(r_outFile.json.unresolved) = AppsOf(unresolved)

C9_Witness ==
    /\ r_pc = "done"
    /\ apps = <<VisualStudioCode, GoogleChrome, VLC>>
    /\ AppsOf(r_outFile.json.brew_installable) = <<VisualStudioCode, VLC>>
    /\ AppsOf(r_outFile.json.unresolved) = <<GoogleChrome>>

\* C10: each program opens its output at most once and only when every record is
\* computed; the output is either untouched or holds the whole document, so a run
\* that fails has not touched it; a malformed --resolved file makes the enricher
\* fail without opening its output.
C10_NoPartialOutput ==
    /\ r_outOpens <= 1
    /\ r_outOpens = 1 => r_i = Len(apps) /\ Len(resolved) + Len(unresolved) = Len(apps)
    /\ r_outFile \in {Untouched,
                      Written([brew_installable |-> resolved, unresolved |-> unresolved])}
    /\ r_pc = "done" <=> ResolverWritten
    /\ r_pc = "failed" => r_outFile = Untouched /\ r_outOpens = 0
    /\ e_outOpens <= 1
    /\ e_outOpens = 1 => e_i = Len(e_unresolved)
    /\ e_outFile.state \in {"untouched", "written"}
    /\ e_pc = "done" <=> EnricherWritten
    /\ e_pc = "failed" => e_outFile = Untouched /\ e_outOpens = 0
    /\ (resolvedFile.kind = "malformed" /\ e_pc # "idle") =>
         /\ e_pc \in {"load", "failed"}
         /\ e_outFile = Untouched
         /\ e_outOpens = 0

====
